---- MODULE Spec2Model ----
(***************************************************************************)
(* Model of docs/source/conf.py, the Sphinx configuration of hed-matlab.   *)
(* The module body is a straight-line program: each statement binds one    *)
(* name in the module namespace.  pc is the line of the next statement.    *)
(* Three statements compute their value from the environment: line 24      *)
(* (date.today()), line 32 (os.path.abspath, which reads the working       *)
(* directory) and line 66 (sphinx_rtd_theme.get_html_theme_path()).        *)
(***************************************************************************)
EXTENDS Integers, Sequences, FiniteSets, TLC

VARIABLES pc, status, config, writes, firstWrite, toolView, today,
          cwd, fs, sysPath, environ, themeState, confdir, firstSrcDir

vars == <<pc, status, config, writes, firstWrite, toolView, today,
          cwd, fs, sysPath, environ, themeState, confdir, firstSrcDir>>

\* ---------------------------------------------------------------- bounds
\* Deepest directory of the modelled filesystem tree.
MaxDepth == 3

\* Directory names of the modelled filesystem tree.
Names == {"a", "b"}

\* Years date.today().year is drawn from.
Years == {987, 2017, 2024}

\* Where conf.py can live: docs/source, two levels below the repository.
ConfDirs == {<<"a", "b">>, <<"b", "a">>}

\* sys.path and os.environ of a fresh interpreter.
InitialSysPath == <<"site-packages">>

InitialEnviron == [HOME |-> "/a"]

\* ------------------------------------------------------- paths (os.path)
\* An absolute directory is the sequence of its components; <<>> is "/".
RECURSIVE PathsOfDepth(_)
PathsOfDepth(d) ==
    IF d = 0 THEN {<<>>}
    ELSE {Append(p, n) : p \in PathsOfDepth(d - 1), n \in Names}

AllDirs == UNION {PathsOfDepth(d) : d \in 0..MaxDepth}

IsPrefix(p, q) == Len(p) <= Len(q) /\ SubSeq(q, 1, Len(p)) = p

\* The directories left after the subtree at r has been removed.
TreeWithout(r) == {p \in AllDirs : ~IsPrefix(r, p)}

\* os.path.join of two relative paths: the components of both, in order.
join(a, b) == [abs |-> FALSE, comps |-> a \o b]

\* posixpath.normpath: ".." removes the component before it; at the root of
\* an absolute path ".." is dropped, at the start of a relative one it stays.
RECURSIVE Collapse(_, _, _)
Collapse(isabs, done, rest) ==
    IF rest = <<>> THEN done
    ELSE LET c == Head(rest) IN
         IF c # ".." THEN Collapse(isabs, Append(done, c), Tail(rest))
         ELSE IF done # <<>> /\ done[Len(done)] # ".."
              THEN Collapse(isabs, SubSeq(done, 1, Len(done) - 1), Tail(rest))
         ELSE IF isabs THEN Collapse(isabs, done, Tail(rest))
         ELSE Collapse(isabs, Append(done, c), Tail(rest))

normpath(p) == [abs |-> p.abs, comps |-> Collapse(p.abs, <<>>, p.comps)]

\* Variant: the working directory is taken on trust, gone or not.
getcwd_never_fails == FALSE

\* os.getcwd() raises FileNotFoundError when the working directory is gone.
getcwd_fails == cwd \notin fs

\* posixpath.abspath: a relative path is joined to os.getcwd(), then normpath.
abspath(p) ==
    normpath(IF p.abs THEN p ELSE [abs |-> TRUE, comps |-> cwd \o p.comps])

\* ------------------------------------------------------ str.format(year)
Digit(d) == <<"0", "1", "2", "3", "4", "5", "6", "7", "8", "9">>[d + 1]

RECURSIVE ToStr(_)
ToStr(n) == IF n < 10 THEN Digit(n) ELSE ToStr(n \div 10) \o Digit(n % 10)

\* Variant: the year written into the literal instead of read from the clock.
copyright_fixed_year(year) == "2017-2024, HED Working Group"

\* line 24: '2017-{}, HED Working Group'.format(date.today().year)
copyright(year) == "2017-" \o ToStr(year) \o ", HED Working Group"

\* ------------------------------------------------------- literal values
\* Variant: an extension listed a second time.
extensions_repeated ==
    <<"myst_parser", "sphinxcontrib.matlab", "sphinx.ext.autodoc",
      "myst_parser">>

extensions == <<"myst_parser", "sphinxcontrib.matlab", "sphinx.ext.autodoc">>

templates_path == <<"_templates">>

\* Variant: the static asset directory excluded as well.
exclude_patterns_with_static ==
    <<"_build", "_templates", "_static", "Thumbs.db", ".DS_Store">>

exclude_patterns == <<"_build", "_templates", "Thumbs.db", ".DS_Store">>

html_static_path == <<"_static">>

html_theme_options ==
    [analytics_id |-> "UA-XXXXXXX-1",
     analytics_anonymize_ip |-> FALSE,
     logo_only |-> FALSE,
     display_version |-> TRUE,
     prev_next_buttons_location |-> "top",
     style_external_links |-> FALSE,
     vcs_pageview_mode |-> "",
     style_nav_header_background |-> "LightSlateGray",
     collapse_navigation |-> FALSE,
     sticky_navigation |-> TRUE,
     navigation_depth |-> 4,
     includehidden |-> TRUE,
     titles_only |-> FALSE]

\* Variant: line 29 binds version a second time instead of release.
ProjectInfo_version_twice ==
    { [line |-> 23, key |-> "project", val |-> "HED Resources"],
      [line |-> 25, key |-> "author",  val |-> "HED Working Group"],
      [line |-> 28, key |-> "version", val |-> "0.0.1"],
      [line |-> 29, key |-> "version", val |-> "0.0.2"] }

\* The statements whose right-hand side is a literal, by section of the file.
ProjectInfo ==
    { [line |-> 23, key |-> "project", val |-> "HED Resources"],
      [line |-> 25, key |-> "author",  val |-> "HED Working Group"],
      [line |-> 28, key |-> "version", val |-> "0.0.1"],
      [line |-> 29, key |-> "release", val |-> "0.0.1"] }

GeneralConfig ==
    { [line |-> 36, key |-> "extensions", val |-> extensions],
      [line |-> 43, key |-> "primary_domain", val |-> "mat"],
      [line |-> 44, key |-> "autosummary_generate", val |-> TRUE],
      [line |-> 45, key |-> "autodoc_default_flags",
                    val |-> <<"members", "inherited-members">>],
      [line |-> 46, key |-> "add_module_names", val |-> FALSE],
      [line |-> 47, key |-> "myst_all_links_external", val |-> FALSE],
      [line |-> 48, key |-> "myst_heading_anchors", val |-> 4],
      [line |-> 49, key |-> "myst_enable_extensions", val |-> <<"deflist">>],
      [line |-> 52, key |-> "templates_path", val |-> templates_path],
      [line |-> 53, key |-> "source_suffix", val |-> <<".rst", ".md">>],
      [line |-> 54, key |-> "master_doc", val |-> "index"],
      [line |-> 59, key |-> "exclude_patterns", val |-> exclude_patterns] }

\* Variant: the file ends before html_static_path is bound.
HtmlOutput_no_static_path ==
    { [line |-> 64, key |-> "pygments_style", val |-> "sphinx"],
      [line |-> 65, key |-> "html_theme", val |-> "sphinx_rtd_theme"],
      [line |-> 71, key |-> "html_theme_options", val |-> html_theme_options] }

HtmlOutput ==
    { [line |-> 64, key |-> "pygments_style", val |-> "sphinx"],
      [line |-> 65, key |-> "html_theme", val |-> "sphinx_rtd_theme"],
      [line |-> 71, key |-> "html_theme_options", val |-> html_theme_options],
      [line |-> 90, key |-> "html_static_path", val |-> html_static_path] }

Literals == ProjectInfo \cup GeneralConfig \cup HtmlOutput

\* Lines of the statements of the module body, and the line past the last.
ImportLine == 13
CopyrightLine == 24
SrcDirLine == 32
ThemePathLine == 66
EndOfFile == 91

StatementLines ==
    {s.line : s \in Literals}
      \cup {ImportLine, CopyrightLine, SrcDirLine, ThemePathLine}

\* The statement executed after the one at line l.
NextLine(l) ==
    LET later == {m \in StatementLines : m > l} IN
    IF later = {} THEN EndOfFile
    ELSE CHOOSE m \in later : \A k \in later : m <= k

\* The names the file binds for Sphinx.
Keys ==
    {s.key : s \in Literals}
      \cup {"copyright", "matlab_src_dir", "html_theme_path"}

\* ---------------------------------------------------------- namespace
\* name = value in the module namespace.
Assign(f, k, v) == [x \in DOMAIN f \cup {k} |-> IF x = k THEN v ELSE f[x]]

\* One executed assignment statement: the binding, and the record of it.
Bind(k, v) ==
    /\ config' = Assign(config, k, v)
    /\ writes' = [writes EXCEPT ![k] = @ + 1]
    /\ firstWrite' = IF k \in DOMAIN firstWrite THEN firstWrite
                     ELSE Assign(firstWrite, k, v)

NoBind == UNCHANGED <<config, writes, firstWrite>>

\* What no statement of the file touches.
Surroundings == <<cwd, fs, sysPath, environ, themeState, confdir,
                  firstSrcDir>>

\* An uncaught exception leaves the module body at the current statement.
Raise ==
    /\ status' = "aborted"
    /\ UNCHANGED pc
    /\ NoBind

Advance ==
    /\ pc' = NextLine(pc)
    /\ UNCHANGED status

\* ------------------------------------------------------------- actions
Init ==
    /\ pc = ImportLine
    /\ status = "running"
    /\ config = <<>>
    /\ writes = [k \in Keys |-> 0]
    /\ firstWrite = <<>>
    /\ toolView = <<>>
    /\ today = 0
    /\ cwd \in AllDirs
    /\ \E r \in (AllDirs \ {<<>>}) \cup {<<"none">>} : fs = TreeWithout(r)
    /\ sysPath = InitialSysPath
    /\ environ = InitialEnviron
    /\ themeState \in {"ok", "no_module", "no_helper"}
    /\ confdir \in ConfDirs
    /\ firstSrcDir = <<"none">>

\* lines 13-16: import os, sys, sphinx_rtd_theme, date.
Import ==
    /\ status = "running"
    /\ pc = ImportLine
    /\ IF themeState = "no_module" THEN Raise ELSE Advance /\ NoBind
    /\ UNCHANGED <<toolView, today>>
    /\ UNCHANGED Surroundings

\* lines 23-29, 36-59, 64-65, 71-90: name = literal.
AssignLiteral ==
    /\ status = "running"
    /\ \E s \in Literals :
          /\ s.line = pc
          /\ Bind(s.key, s.val)
    /\ Advance
    /\ UNCHANGED <<toolView, today>>
    /\ UNCHANGED Surroundings

\* line 24: copyright = '2017-{}, HED Working Group'.format(date.today().year)
AssignCopyright ==
    /\ status = "running"
    /\ pc = CopyrightLine
    /\ \E y \in Years :
          /\ today' = y
          /\ Bind("copyright", copyright(y))
    /\ Advance
    /\ UNCHANGED toolView
    /\ UNCHANGED Surroundings

\* Variant: line 32 also puts the directory on the module search path.
AssignMatlabSrcDir_sys_path ==
    /\ status = "running"
    /\ pc = SrcDirLine
    /\ IF getcwd_fails THEN Raise /\ UNCHANGED sysPath
       ELSE /\ Bind("matlab_src_dir", abspath(join(<<"..">>, <<"..">>)))
            /\ sysPath' = <<"matlab_src_dir">> \o sysPath
            /\ Advance
    /\ UNCHANGED <<toolView, today>>
    /\ UNCHANGED <<cwd, fs, environ, themeState, confdir, firstSrcDir>>

\* line 32: matlab_src_dir = os.path.abspath(os.path.join("..", ".."))
AssignMatlabSrcDir ==
    /\ status = "running"
    /\ pc = SrcDirLine
    /\ IF getcwd_fails THEN Raise
       ELSE /\ Bind("matlab_src_dir", abspath(join(<<"..">>, <<"..">>)))
            /\ Advance
    /\ UNCHANGED <<toolView, today>>
    /\ UNCHANGED Surroundings

\* Variant: the missing helper is swallowed and the file carries on.
AssignHtmlThemePath_swallowed ==
    /\ status = "running"
    /\ pc = ThemePathLine
    /\ IF themeState = "no_helper" THEN Advance /\ NoBind
       ELSE /\ Bind("html_theme_path", <<"site-packages/sphinx_rtd_theme">>)
            /\ Advance
    /\ UNCHANGED <<toolView, today>>
    /\ UNCHANGED Surroundings

\* line 66: html_theme_path = [sphinx_rtd_theme.get_html_theme_path()]
AssignHtmlThemePath ==
    /\ status = "running"
    /\ pc = ThemePathLine
    /\ IF themeState = "no_helper" THEN Raise
       ELSE /\ Bind("html_theme_path", <<"site-packages/sphinx_rtd_theme">>)
            /\ Advance
    /\ UNCHANGED <<toolView, today>>
    /\ UNCHANGED Surroundings

\* The module body ran off its end: Sphinx reads the namespace it filled.
ToolRead ==
    /\ status = "running"
    /\ pc = EndOfFile
    /\ status' = "done"
    /\ toolView' = config
    /\ firstSrcDir' = IF firstSrcDir = <<"none">>
                      THEN config["matlab_src_dir"].comps
                      ELSE firstSrcDir
    /\ UNCHANGED <<pc, config, writes, firstWrite, today>>
    /\ UNCHANGED <<cwd, fs, sysPath, environ, themeState, confdir>>

\* Another build of the same conf.py: a new process, started from any
\* directory, with an empty namespace.
NewInvocation ==
    /\ status \in {"done", "aborted"}
    /\ pc' = ImportLine
    /\ status' = "running"
    /\ config' = <<>>
    /\ writes' = [k \in Keys |-> 0]
    /\ firstWrite' = <<>>
    /\ toolView' = <<>>
    /\ today' = 0
    /\ cwd' \in AllDirs
    /\ sysPath' = InitialSysPath
    /\ environ' = InitialEnviron
    /\ UNCHANGED <<fs, themeState, confdir, firstSrcDir>>

Next ==
    \/ Import
    \/ AssignLiteral
    \/ AssignCopyright
    \/ AssignMatlabSrcDir
    \/ AssignHtmlThemePath
    \/ ToolRead
    \/ NewInvocation

Spec == Init /\ [][Next]_vars

\* ------------------------------------------------------------ properties
Range(q) == {q[i] : i \in 1..Len(q)}

\* The directory two levels above d, or the root when d is less than two deep.
Grandparent(d) == IF Len(d) <= 2 THEN <<>> ELSE SubSeq(d, 1, Len(d) - 2)

\* The copyright notice of each year, written out.
Notice ==
    (987 :> "2017-987, HED Working Group")
      @@ (2017 :> "2017-2017, HED Working Group")
      @@ (2024 :> "2017-2024, HED Working Group")

\* C1: once line 24 has run, copyright is "2017-" then the decimal year read
\* at that moment then ", HED Working Group" (2024 gives "2017-2024, HED
\* Working Group", 2017 gives "2017-2017, HED Working Group"), and that is
\* the value Sphinx reads.
C1_CopyrightNotice ==
    /\ "copyright" \in DOMAIN config =>
          /\ today \in DOMAIN Notice
          /\ config["copyright"] = Notice[today]
    /\ status = "done" => toolView["copyright"] = Notice[today]

C1_Witness ==
    /\ status = "done"
    /\ today = 2017
    /\ toolView["copyright"] = "2017-2017, HED Working Group"

\* C2 as stated: no entry of exclude_patterns is an entry of templates_path
\* or of html_static_path.
C2_NoSelfExclusion ==
    status = "done" =>
        Range(toolView["exclude_patterns"])
          \cap (Range(toolView["templates_path"])
                  \cup Range(toolView["html_static_path"])) = {}

\* C2 amended: no entry of exclude_patterns is an entry of html_static_path;
\* the one entry exclude_patterns shares with templates_path is "_templates".
C2_StaticNotExcluded ==
    status = "done" =>
        /\ Range(toolView["exclude_patterns"])
             \cap Range(toolView["html_static_path"]) = {}
        /\ Range(toolView["exclude_patterns"])
             \cap Range(toolView["templates_path"]) = {"_templates"}

C2_Witness ==
    /\ status = "done"
    /\ "_templates" \in Range(toolView["exclude_patterns"])
    /\ "_static" \in Range(toolView["html_static_path"])

\* C3 as stated: matlab_src_dir is the directory two levels above the
\* directory of conf.py, whatever the working directory.
C3_RelativeToScript ==
    status = "done" =>
        toolView["matlab_src_dir"] =
            [abs |-> TRUE, comps |-> Grandparent(confdir)]

\* C4: after the file has run, extensions is myst_parser, sphinxcontrib.matlab,
\* sphinx.ext.autodoc in that order, non-empty and without a repeated entry.
C4_Extensions ==
    status = "done" =>
        LET e == toolView["extensions"] IN
        /\ Len(e) = 3
        /\ e[1] = "myst_parser"
        /\ e[2] = "sphinxcontrib.matlab"
        /\ e[3] = "sphinx.ext.autodoc"
        /\ Cardinality(Range(e)) = Len(e)

C4_Witness ==
    /\ status = "done"
    /\ Len(toolView["extensions"]) = 3
    /\ pc = EndOfFile

\* C5: Sphinx reads either nothing or every key; a run that raised (missing
\* theme module, missing helper, working directory gone) is never read, even
\* though its namespace may hold some of the keys.
C5_AllOrNothing ==
    /\ DOMAIN toolView \in {{}, Keys}
    /\ status = "aborted" => DOMAIN toolView = {}
    /\ status = "done" => DOMAIN toolView = Keys
    /\ (themeState # "ok" \/ getcwd_fails) => status # "done"

C5_Witness ==
    /\ status = "aborted"
    /\ pc = ThemePathLine
    /\ DOMAIN config # {}
    /\ DOMAIN config # Keys
    /\ DOMAIN toolView = {}

\* The keys C6 lists.
RequiredKeys ==
    {"project", "copyright", "author", "version", "release",
     "matlab_src_dir", "extensions", "primary_domain",
     "autosummary_generate", "autodoc_default_flags", "templates_path",
     "exclude_patterns", "html_theme", "html_theme_path",
     "html_theme_options", "html_static_path"}

\* C6: when the file has run to its end, every listed key has a value in what
\* Sphinx reads.
C6_FullyPopulated ==
    status = "done" => RequiredKeys \subseteq DOMAIN toolView

C6_Witness ==
    /\ status = "done"
    /\ "html_static_path" \in DOMAIN toolView
    /\ "project" \in DOMAIN toolView

\* C7: a step that finishes the run leaves every key written exactly once
\* and read with the value of that one assignment; no key is ever written
\* twice; and no step taken after the run has finished changes a value.
C7_WrittenOnce ==
    [][ /\ \A k \in Keys : writes'[k] <= 1
        /\ status' = "done" =>
              \A k \in Keys : /\ writes'[k] = 1
                              /\ toolView'[k] = firstWrite'[k]
        /\ (status = "done" /\ status' = "done") =>
              (config' = config /\ toolView' = toolView) ]_vars

C7_Witness ==
    /\ status = "done"
    /\ \A k \in Keys : writes[k] = 1
    /\ DOMAIN firstWrite = Keys

\* C8 as stated: every run from the same conf.py location gives the same
\* matlab_src_dir, and resolving that result again returns it unchanged.
C8_SameEveryRun ==
    status = "done" =>
        /\ toolView["matlab_src_dir"].comps = firstSrcDir
        /\ abspath(toolView["matlab_src_dir"]) = toolView["matlab_src_dir"]

\* C9: when the directory two levels up cannot be resolved, the run stops at
\* line 32 with an error; a run that got past line 32 has matlab_src_dir
\* set to a directory that exists.
C9_UnresolvableIsFatal ==
    /\ Grandparent(cwd) \notin fs => pc <= SrcDirLine /\ status # "done"
    /\ pc > SrcDirLine =>
          /\ config["matlab_src_dir"].abs
          /\ config["matlab_src_dir"].comps \in fs

C9_Witness ==
    /\ status = "aborted"
    /\ pc = SrcDirLine
    /\ Grandparent(cwd) \notin fs

====
